---- MODULE Spec2Model ----
(***************************************************************************)
(* Model of src/main.cpp of SimpleRaytracer: scene construction, the       *)
(* primary ray of one sample, the recursive cast_ray integrator with its   *)
(* sphere intersection test, the three material branches and the rejection *)
(* sampling loop.                                                          *)
(*                                                                         *)
(* f32 values are fixed-point integers:                                    *)
(*   positions, directions, radii, roughness   in units of 1/SCALE         *)
(*   intersection parameters t                 in units of 1/T_SCALE       *)
(*   colour channels                           in units of 1/C_SCALE       *)
(*   refraction scalars (ratio, cos, sin, R)   in units of 1/Q_SCALE       *)
(* and one extra value NaN, produced by 0/0 and by sqrt of a negative      *)
(* number, which every arithmetic operation propagates and on which every  *)
(* comparison is false, as in IEEE arithmetic.                             *)
(***************************************************************************)
EXTENDS Integers, Sequences, FiniteSets, TLC

\* ------------------------------------------------------------------------
\* Bounds of the model
\* ------------------------------------------------------------------------
\* the maxDepth main passes to cast_ray (10 in main.cpp)
MAX_RAY_DEPTH == 2
\* largest number of objects in the scene (main builds 4)
MaxObjects == 2

\* ------------------------------------------------------------------------
\* Fixed-point scales
\* ------------------------------------------------------------------------
SCALE == 10
T_SCALE == 1000
C_SCALE == 200
Q_SCALE == 1000

\* ------------------------------------------------------------------------
\* f32 arithmetic
\* ------------------------------------------------------------------------
NaN == -2000000000

\* F applied to the value of e: e is evaluated once, before F
With(e, F(_)) == CHOOSE r \in { F(x) : x \in {e} } : TRUE

Abs(x) == IF x < 0 THEN -x ELSE x

\* a / b rounded to the nearest integer, b > 0
RDiv(a, b) == IF a >= 0 THEN (2 * a + b) \div (2 * b)
              ELSE -((2 * (-a) + b) \div (2 * b))

FAdd(a, b) == IF a = NaN \/ b = NaN THEN NaN ELSE a + b
FSub(a, b) == IF a = NaN \/ b = NaN THEN NaN ELSE a - b
FNeg(a) == IF a = NaN THEN NaN ELSE -a
\* product of a (scale s1) and b (scale s2) returned in scale s1
FMul(a, b, s2) == IF a = NaN \/ b = NaN THEN NaN ELSE RDiv(a * b, s2)
FGt(a, b) == a # NaN /\ b # NaN /\ a > b
FLt(a, b) == a # NaN /\ b # NaN /\ a < b
FLe(a, b) == a # NaN /\ b # NaN /\ a <= b
FEq(a, b) == a # NaN /\ b # NaN /\ a = b

\* bisection for the floor of the square root of n between lo and hi
SqrtSearch[n \in Nat, lo \in Nat, hi \in Nat] ==
    IF lo >= hi THEN lo
    ELSE LET mid == (lo + hi + 1) \div 2
         IN  IF mid * mid <= n THEN SqrtSearch[n, mid, hi]
             ELSE SqrtSearch[n, lo, mid - 1]

\* floor of the square root of n >= 0
ISqrt(n) == SqrtSearch[n, 0, IF n < 46340 THEN n ELSE 46340]

\* sqrt() of the C library: NaN for a negative argument
FSqrt(x) == IF x = NaN \/ x < 0 THEN NaN ELSE ISqrt(x)

\* ------------------------------------------------------------------------
\* v3f / v4f (types.h)
\* ------------------------------------------------------------------------
v3f(x, y, z) == <<x, y, z>>
V3Zero == <<0, 0, 0>>
V3NaN == <<NaN, NaN, NaN>>

HasNaN(v) == \E k \in 1..3 : v[k] = NaN

VAdd(a, b) == [k \in 1..3 |-> FAdd(a[k], b[k])]
VSub(a, b) == [k \in 1..3 |-> FSub(a[k], b[k])]
VNeg(a) == [k \in 1..3 |-> FNeg(a[k])]
\* vector (scale SCALE) times scalar of scale s
VScale(a, f, s) == [k \in 1..3 |-> FMul(a[k], f, s)]

\* dot product of two vectors of scale SCALE, in units of 1/SCALE^2
dot(a, b) == FAdd(FAdd(IF a[1] = NaN \/ b[1] = NaN THEN NaN ELSE a[1] * b[1],
                       IF a[2] = NaN \/ b[2] = NaN THEN NaN ELSE a[2] * b[2]),
                  IF a[3] = NaN \/ b[3] = NaN THEN NaN ELSE a[3] * b[3])

norm_squared(a) == dot(a, a)

\* length of a, in units of 1/(100*SCALE)
norm(a) == IF HasNaN(a) THEN NaN
           ELSE With(dot(a, a) * 10000, LAMBDA n2 : ISqrt(n2))

\* a / |a|; the zero vector gives 0/0 = NaN in every component
normalize(a) ==
    With(a, LAMBDA v :
        IF HasNaN(v) THEN V3NaN
        ELSE With(dot(v, v) * 256, LAMBDA n2 :
             With(ISqrt(n2), LAMBDA n16 :
                IF n16 = 0 THEN V3NaN
                ELSE [k \in 1..3 |-> RDiv(v[k] * SCALE * 16, n16)])))

\* every component within the tolerance of zero (below the resolution 1/SCALE)
near_zero(a) == \A k \in 1..3 : FEq(a[k], 0)

\* element-wise product of two colours
hadamard(a, b) == [k \in 1..3 |-> FMul(a[k], b[k], C_SCALE)]

COLOUR_WHITE == <<C_SCALE, C_SCALE, C_SCALE>>
COLOUR_BLACK == <<0, 0, 0>>

\* ------------------------------------------------------------------------
\* Constants of main.cpp
\* ------------------------------------------------------------------------
\* F32_MAX and F32_MIN of types.h: the largest f32 and the "no hit" value
F32_MAX == 1000000000
F32_MIN == -F32_MAX
\* MIN_T = 0.001f
MIN_T == 1

\* ------------------------------------------------------------------------
\* Ray, Sphere, Material, RenderObject
\* ------------------------------------------------------------------------
\* The constructor initialises the members from the arguments and then
\* normalizes its parameter rayDir, a local copy: the member dir keeps the
\* direction it was given.
Ray(rayOrigin, rayDir, normalized) ==
    LET rayDirLocal == IF ~normalized THEN normalize(rayDir) ELSE rayDir
    IN  [origin |-> rayOrigin, dir |-> rayDir]

\* origin + dir*t, t in units of 1/T_SCALE
at(ray, t) == VAdd(ray.origin, VScale(ray.dir, t, T_SCALE))

Sphere(pos, radius) == [pos |-> pos, radius |-> radius]

create_diffuse_material(colour) ==
    [type |-> "DIFFUSE", colour |-> colour, roughness |-> 0, n |-> 0]

create_metal_material(colour, roughness) ==
    [type |-> "METAL", colour |-> colour, roughness |-> roughness, n |-> 0]

create_dialectric_material(refractiveIndex) ==
    [type |-> "DIALECTRIC", colour |-> COLOUR_WHITE, roughness |-> 0,
     n |-> refractiveIndex]

RenderObject(material, geometry) == [material |-> material, geometry |-> geometry]

\* ------------------------------------------------------------------------
\* intersection_test
\* ------------------------------------------------------------------------
\* b of the quadratic, in units of 1/SCALE^2
QuadB(ray, sphere) ==
    With(VSub(ray.origin, sphere.pos), LAMBDA oc :
    With(dot(ray.dir, oc), LAMBDA d :
        IF d = NaN THEN NaN ELSE 2 * d))

\* c of the quadratic, in units of 1/SCALE^2
QuadC(ray, sphere) ==
    With(VSub(ray.origin, sphere.pos), LAMBDA oc :
    With(dot(oc, oc), LAMBDA d :
        FSub(d, sphere.radius * sphere.radius)))

\* b*b - 4*a*c with a = 1, in units of 1/SCALE^4
Discriminant(ray, sphere) ==
    LET a == 1
    IN  With(QuadB(ray, sphere), LAMBDA b :
        With(QuadC(ray, sphere), LAMBDA c :
            IF b = NaN \/ c = NaN THEN NaN
            ELSE b * b - 4 * a * c * SCALE * SCALE))

\* intersection_test returning the larger root, (-b + rootValue) / (2*a)
intersection_test_LargerRoot(ray, sphere) ==
    LET a == 1
    IN  With(QuadB(ray, sphere), LAMBDA b :
        With(Discriminant(ray, sphere), LAMBDA discriminant :
            IF FGt(discriminant, 0)
            THEN With(FSqrt(discriminant), LAMBDA rootValue :
                    RDiv((-b + rootValue) * T_SCALE, 2 * a * SCALE * SCALE))
            ELSE IF FEq(discriminant, 0)
            THEN RDiv((-b) * T_SCALE, 2 * a * SCALE * SCALE)
            ELSE F32_MIN))

\* the intersection parameter in units of 1/T_SCALE, or F32_MIN
intersection_test(ray, sphere) ==
    LET a == 1
    IN  With(QuadB(ray, sphere), LAMBDA b :
        With(Discriminant(ray, sphere), LAMBDA discriminant :
            IF FGt(discriminant, 0)
            THEN With(FSqrt(discriminant), LAMBDA rootValue :
                    RDiv((-b - rootValue) * T_SCALE, 2 * a * SCALE * SCALE))
            ELSE IF FEq(discriminant, 0)
            THEN RDiv((-b) * T_SCALE, 2 * a * SCALE * SCALE)
            ELSE F32_MIN))

\* ------------------------------------------------------------------------
\* Random numbers
\* ------------------------------------------------------------------------
\* The values rand() / (RAND_MAX + 1.0) takes in the model, in units of
\* 1/Q_SCALE: 0, 1/2 and 3/4 of the range [0, 1)
Rand01 == {0, 500, 750}

\* random_f32(min, max) for the value u of random_f32(); the assertion
\* min < max holds at every call site (the only one passes -1.0f, 1.0f)
random_f32(u, min, max) == RDiv(u * (max - min), Q_SCALE) + min

random_v3f(u1, u2, u3, min, max) ==
    v3f(random_f32(u1, min, max), random_f32(u2, min, max), random_f32(u3, min, max))

\* random_f64(), in units of 1/Q_SCALE
random_f64(u) == u

\* randomPoint*sphere->radius + sphere->pos
random_point_in_sphere(randomPoint, sphere) ==
    VAdd(VScale(randomPoint, sphere.radius, SCALE), sphere.pos)

\* ------------------------------------------------------------------------
\* Reflection and refraction
\* ------------------------------------------------------------------------
reflect_direction(dir, normal) ==
    With(FNeg(dot(dir, normal)), LAMBDA projectedDistance :
        [k \in 1..3 |->
            IF projectedDistance = NaN \/ normal[k] = NaN \/ dir[k] = NaN THEN NaN
            ELSE dir[k] + RDiv(2 * normal[k] * projectedDistance, SCALE * SCALE)])

reflect_ray(ray, point, normal) == Ray(point, reflect_direction(ray.dir, normal), FALSE)

Clamp(x, lo, hi) == IF x < lo THEN lo ELSE IF x > hi THEN hi ELSE x

\* pow(x, 5) for x in units of 1/Q_SCALE.  x is saturated at +-2: beyond it
\* the reflectance is above 1 or below 0 and its comparison with a draw of
\* [0, 1) no longer depends on x.
Pow5(x) ==
    With(Clamp(x, -2 * Q_SCALE, 2 * Q_SCALE), LAMBDA y :
    With(RDiv(y * y, Q_SCALE), LAMBDA y2 :
    With(RDiv(y2 * y2, Q_SCALE), LAMBDA y4 :
        RDiv(y4 * y, Q_SCALE))))

\* Schlick's approximation
reflectance(cosine, refractRatio) ==
    IF cosine = NaN \/ refractRatio = NaN THEN NaN
    ELSE With(RDiv((Q_SCALE - refractRatio) * Q_SCALE, Q_SCALE + refractRatio),
              LAMBDA q :
         With(RDiv(q * q, Q_SCALE), LAMBDA r0 :
         With(Pow5(Q_SCALE - cosine), LAMBDA p5 :
            r0 + RDiv((Q_SCALE - r0) * p5, Q_SCALE))))

\* dot(-ray->dir, intersectNormal) in units of 1/Q_SCALE
CosTheta(dir, normal) ==
    With(dot(VNeg(dir), normal), LAMBDA d :
        IF d = NaN THEN NaN ELSE RDiv(d * Q_SCALE, SCALE * SCALE))

\* worldIndex/material->n, inverted when ray and normal point the same way
RefractRatio(dir, normal, n) ==
    LET worldIndex == Q_SCALE
    IN  With(RDiv(worldIndex * Q_SCALE, n), LAMBDA refractRatio :
            IF FGt(dot(dir, normal), 0) THEN RDiv(Q_SCALE * Q_SCALE, refractRatio)
            ELSE refractRatio)

\* the direction of the ray leaving a dielectric, for the value r of random_f64()
\* sqrt(1 - cosTheta*cosTheta)
SinTheta(cosTheta) ==
    IF cosTheta = NaN THEN NaN
    ELSE FSqrt((Q_SCALE - RDiv(cosTheta * cosTheta, Q_SCALE)) * Q_SCALE)

\* refractRatio*(dir + cosTheta*normal)
RayPerpendicular(dir, normal, cosTheta, refractRatio) ==
    With(VAdd(dir, VScale(normal, cosTheta, Q_SCALE)), LAMBDA v :
        VScale(v, refractRatio, Q_SCALE))

\* -sqrt(|1 - norm_squared(rayPerpendicular)|) * normal
RayParallel(rayPerpendicular, normal) ==
    With(norm_squared(rayPerpendicular), LAMBDA ns :
    With(IF ns = NaN THEN NaN ELSE ISqrt(Abs(SCALE * SCALE - ns)), LAMBDA rootValue :
        VScale(normal, FNeg(rootValue), SCALE)))

DialectricDir(dir, normal, n, r) ==
    With(RefractRatio(dir, normal, n), LAMBDA refractRatio :
    With(CosTheta(dir, normal), LAMBDA cosTheta :
    With(SinTheta(cosTheta), LAMBDA sinTheta :
        LET internalReflection == FGt(FMul(refractRatio, sinTheta, Q_SCALE), Q_SCALE)
            shouldReflect == FGt(reflectance(cosTheta, refractRatio), random_f64(r))
        IN  IF internalReflection \/ shouldReflect
            THEN reflect_direction(dir, normal)
            ELSE With(RayPerpendicular(dir, normal, cosTheta, refractRatio),
                      LAMBDA rayPerpendicular :
                          VAdd(rayPerpendicular,
                               RayParallel(rayPerpendicular, normal))))))

\* the gradient with ratio = 0.5*dir.y + 1
Background_WrongRatio(dir) ==
    IF dir[2] = NaN THEN <<NaN, NaN, NaN>>
    ELSE LET ratio2 == dir[2] + 2 * SCALE
         IN  <<C_SCALE - 5 * ratio2, C_SCALE - 2 * ratio2, C_SCALE - ratio2>>

\* the background gradient (1 - ratio)*white + ratio*(0.5, 0.8, 0.9) with
\* ratio = 0.5*(dir.y + 1); exact in units of 1/C_SCALE = 1/(20*SCALE)
Background(dir) ==
    IF dir[2] = NaN THEN <<NaN, NaN, NaN>>
    ELSE LET ratio2 == dir[2] + SCALE  \* 2*ratio, in units of 1/SCALE
         IN  <<C_SCALE - 5 * ratio2, C_SCALE - 2 * ratio2, C_SCALE - ratio2>>

\* ------------------------------------------------------------------------
\* Inputs: the objects a scene is built from and the image plane points
\* ------------------------------------------------------------------------
SphereA == Sphere(v3f(0, 0, -50), 10)    \* in front of the camera
SphereT == Sphere(v3f(10, 0, -50), 10)   \* tangent to the central ray
SphereN == Sphere(v3f(0, 0, -30), -5)    \* nearer, with a negative radius
SphereB == Sphere(v3f(0, 0, 20), 10)     \* behind the camera

Diffuse == create_diffuse_material(<<84, 140, 84>>)
Mirror == create_metal_material(<<188, 152, 22>>, 0)
RoughMetal == create_metal_material(<<100, 60, 160>>, 80)
Glass == create_dialectric_material(1500)

Objects ==
    { RenderObject(Diffuse, SphereA), RenderObject(Mirror, SphereA),
      RenderObject(RoughMetal, SphereA), RenderObject(Glass, SphereA),
      RenderObject(Mirror, SphereT), RenderObject(Diffuse, SphereN),
      RenderObject(Mirror, SphereB) }

\* camera at the origin, image plane at z = -focalLength = -1.5
cameraPos == V3Zero
ImagePlanePoints == { v3f(0, 0, -15), v3f(0, 15, -15), v3f(3, 0, -15) }

\* ------------------------------------------------------------------------
\* State
\* ------------------------------------------------------------------------
VARIABLES
    objectList,   \* renderObjects: the scene
    stack,        \* the active invocations of cast_ray, innermost last
    pc,           \* position of the program
    pixelColour,  \* what cast_ray returned to main
    numCalls      \* invocations of cast_ray made for the current sample

vars == <<objectList, stack, pc, pixelColour, numCalls>>

\* the locals of a fresh invocation of cast_ray
NewFrame(ray, maxDepth) ==
    [ ray |-> ray, maxDepth |-> maxDepth,
      resultColour |-> <<0, 0, 0>>,
      tClosest |-> F32_MAX, intersectNormal |-> V3Zero, intersectPoint |-> V3Zero,
      material |-> 0,          \* index into objectList, 0 is the null pointer
      i |-> 0, t |-> F32_MIN,
      randomPoint |-> V3Zero, found |-> FALSE,
      newDir |-> V3Zero, rayColour |-> <<0, 0, 0>>,
      branch |-> "none",
      tests |-> 0, calls |-> 0,
      drew |-> FALSE ]         \* whether the invocation has called rand()

Top == stack[Len(stack)]
numObjects == Len(objectList)
SetTop(f) == [stack EXCEPT ![Len(stack)] = f]
Mat(f) == objectList[f.material].material

Init ==
    /\ objectList = <<>>
    /\ stack = <<>>
    /\ pc = "build"
    /\ pixelColour = <<0, 0, 0>>
    /\ numCalls = 0

\* main: renderObjects[k] = object
AddObject ==
    /\ pc = "build"
    /\ Len(objectList) < MaxObjects
    /\ \E object \in Objects : objectList' = Append(objectList, object)
    /\ UNCHANGED <<stack, pc, pixelColour, numCalls>>

SceneReady ==
    /\ pc = "build"
    /\ pc' = "main"
    /\ UNCHANGED <<objectList, stack, pixelColour, numCalls>>

\* main: one sample, Ray(cameraPos, normalize(imagePlanePoint - cameraPos))
\* handed to cast_ray
PrimaryRay ==
    /\ pc = "main"
    /\ \E imagePlanePoint \in ImagePlanePoints :
       \E ray \in {Ray(cameraPos, normalize(VSub(imagePlanePoint, cameraPos)), TRUE)} :
         stack' = <<NewFrame(ray, MAX_RAY_DEPTH)>>
    /\ pc' = "entry"
    /\ numCalls' = 1
    /\ UNCHANGED <<objectList, pixelColour>>

\* cast_ray testing maxDepth < 0, which no depth satisfies
Entry_NoCutoff ==
    /\ pc = "entry"
    /\ pc' = "scan"
    /\ UNCHANGED <<objectList, stack, pixelColour, numCalls>>

\* cast_ray: if (maxDepth <= 0) return COLOUR_BLACK
Entry ==
    /\ pc = "entry"
    /\ IF Top.maxDepth <= 0
       THEN /\ stack' = SetTop([Top EXCEPT !.resultColour = COLOUR_BLACK,
                                           !.branch = "depth0"])
            /\ pc' = "ret"
       ELSE /\ pc' = "scan"
            /\ UNCHANGED stack
    /\ UNCHANGED <<objectList, pixelColour, numCalls>>

\* the loop body testing t <= tClosest
ScanBody_LastWins(f) ==
    LET sphere == objectList[f.i + 1].geometry
    IN  With(intersection_test(f.ray, sphere), LAMBDA t :
            LET g == [f EXCEPT !.i = f.i + 1, !.t = t, !.tests = f.tests + 1]
            IN  IF FGt(t, MIN_T) /\ FLe(t, f.tClosest)
                THEN With(at(f.ray, t), LAMBDA point :
                        [g EXCEPT !.tClosest = t,
                                  !.intersectPoint = point,
                                  !.intersectNormal = normalize(VSub(point, sphere.pos)),
                                  !.material = f.i + 1])
                ELSE g)

\* the body of the loop over the objects, for object i of frame f
ScanBody(f) ==
    LET sphere == objectList[f.i + 1].geometry
    IN  With(intersection_test(f.ray, sphere), LAMBDA t :
            LET g == [f EXCEPT !.i = f.i + 1, !.t = t, !.tests = f.tests + 1]
            IN  IF FGt(t, MIN_T) /\ FLt(t, f.tClosest)
                THEN With(at(f.ray, t), LAMBDA point :
                        [g EXCEPT !.tClosest = t,
                                  !.intersectPoint = point,
                                  !.intersectNormal = normalize(VSub(point, sphere.pos)),
                                  !.material = f.i + 1])
                ELSE g)

ScanStep ==
    /\ pc = "scan"
    /\ Top.i < numObjects
    /\ \E f \in {Top} : stack' = SetTop(ScanBody(f))
    /\ UNCHANGED <<objectList, pc, pixelColour, numCalls>>

\* the test that follows the loop
HasHit(f) == f.tClosest # F32_MAX /\ f.tClosest > 0

ScanDone == pc = "scan" /\ Top.i = numObjects

\* no collision: the gradient
MissBackground ==
    /\ ScanDone
    /\ ~HasHit(Top)
    /\ stack' = SetTop([Top EXCEPT !.resultColour = Background(Top.ray.dir),
                                   !.branch = "miss"])
    /\ pc' = "ret"
    /\ UNCHANGED <<objectList, pixelColour, numCalls>>

\* the recursive call cast_ray(&ray, objectList, numObjects, maxDepth - 1)
Call(f, branch, ray) ==
    /\ stack' = Append(SetTop([f EXCEPT !.newDir = ray.dir, !.branch = branch,
                                        !.calls = f.calls + 1]),
                       NewFrame(ray, f.maxDepth - 1))
    /\ pc' = "entry"
    /\ numCalls' = numCalls + 1

\* random_point_in_unit_sphere is entered: by random_unit_vector in the
\* diffuse branch, by random_point_in_sphere in the metal branch
EnterRejectionLoop ==
    /\ ScanDone
    /\ HasHit(Top)
    /\ \/ Mat(Top).type = "DIFFUSE"
       \/ Mat(Top).type = "METAL" /\ Mat(Top).roughness > 0
    /\ stack' = SetTop([Top EXCEPT !.randomPoint = V3Zero, !.found = FALSE])
    /\ pc' = "loop"
    /\ UNCHANGED <<objectList, pixelColour, numCalls>>

\* an iteration that never accepts: norm(randomPoint) <= -1.0f
RejectionIterWith_NeverFound(r1, r2, r3) ==
    /\ pc = "loop"
    /\ ~Top.found
    /\ \E randomPoint \in {random_v3f(r1, r2, r3, -SCALE, SCALE)} :
         LET found == FLe(norm(randomPoint), -100 * SCALE)
         IN  stack' = SetTop([Top EXCEPT !.randomPoint = randomPoint,
                                         !.found = found,
                                         !.drew = TRUE])
    /\ UNCHANGED <<objectList, pc, pixelColour, numCalls>>

\* one iteration of while (!found) with the values r1, r2, r3 of random_f32()
RejectionIterWith(r1, r2, r3) ==
    /\ pc = "loop"
    /\ ~Top.found
    /\ \E randomPoint \in {random_v3f(r1, r2, r3, -SCALE, SCALE)} :
         LET found == FLe(norm(randomPoint), 100 * SCALE)
         IN  stack' = SetTop([Top EXCEPT !.randomPoint = randomPoint,
                                         !.found = found,
                                         !.drew = TRUE])
    /\ UNCHANGED <<objectList, pc, pixelColour, numCalls>>

RejectionIter == \E r1, r2, r3 \in Rand01 : RejectionIterWith(r1, r2, r3)

LoopDone == pc = "loop" /\ Top.found

DiffuseScatter ==
    /\ LoopDone
    /\ Mat(Top).type = "DIFFUSE"
    /\ \E f \in {Top} :
       \E random_unit_vector \in {normalize(f.randomPoint)} :
       \E sum \in {VAdd(random_unit_vector, f.intersectNormal)} :
         LET scatterDirection == IF near_zero(VAdd(sum, f.intersectNormal))
                                 THEN f.intersectNormal ELSE sum
         IN  \E reflectRay \in {Ray(f.intersectPoint, scatterDirection, FALSE)} :
               Call(f, "diffuse", reflectRay)
    /\ UNCHANGED <<objectList, pixelColour>>

\* the direction of the ray that leaves a metal surface
MetalDir(f) ==
    With(reflect_direction(f.ray.dir, f.intersectNormal), LAMBDA reflectedDir :
        IF Mat(f).roughness > 0
        THEN With(Sphere(VAdd(f.intersectPoint, reflectedDir), Mat(f).roughness),
                  LAMBDA sphere :
             With(random_point_in_sphere(f.randomPoint, sphere), LAMBDA randomPoint :
                VSub(randomPoint, f.intersectPoint)))
        ELSE reflectedDir)

\* the metal branch recursing when the dot product is >= 0
MetalScatter_GreaterEqual ==
    /\ \/ LoopDone /\ Mat(Top).type = "METAL"
       \/ ScanDone /\ HasHit(Top) /\ Mat(Top).type = "METAL" /\ ~(Mat(Top).roughness > 0)
    /\ \E f \in {Top} :
       \E reflectedDir \in {MetalDir(f)} :
       \E reflectedRay \in {Ray(f.intersectPoint, reflectedDir, FALSE)} :
           IF FGt(dot(reflectedDir, f.intersectNormal), 0)
              \/ FEq(dot(reflectedDir, f.intersectNormal), 0)
           THEN Call(f, "metal", reflectedRay)
           ELSE /\ stack' = SetTop([f EXCEPT !.newDir = reflectedDir,
                                             !.branch = "absorbed",
                                             !.resultColour = COLOUR_BLACK])
                /\ pc' = "ret"
                /\ UNCHANGED numCalls
    /\ UNCHANGED <<objectList, pixelColour>>

MetalScatter ==
    /\ \/ LoopDone /\ Mat(Top).type = "METAL"
       \/ ScanDone /\ HasHit(Top) /\ Mat(Top).type = "METAL" /\ ~(Mat(Top).roughness > 0)
    /\ \E f \in {Top} :
       \E reflectedDir \in {MetalDir(f)} :
       \E reflectedRay \in {Ray(f.intersectPoint, reflectedDir, FALSE)} :
           IF FGt(dot(reflectedDir, f.intersectNormal), 0)
           THEN Call(f, "metal", reflectedRay)
           ELSE /\ stack' = SetTop([f EXCEPT !.newDir = reflectedDir,
                                             !.branch = "absorbed",
                                             !.resultColour = COLOUR_BLACK])
                /\ pc' = "ret"
                /\ UNCHANGED numCalls
    /\ UNCHANGED <<objectList, pixelColour>>

DialectricScatter ==
    /\ ScanDone
    /\ HasHit(Top)
    /\ Mat(Top).type = "DIALECTRIC"
    /\ \E r \in Rand01 :
       \E f \in {Top} :
       \E newRayDir \in {DialectricDir(f.ray.dir, f.intersectNormal, Mat(f).n, r)} :
       \E newRay \in {Ray(f.intersectPoint, newRayDir, FALSE)} :
         Call([f EXCEPT !.drew = TRUE], "dialectric", newRay)
    /\ UNCHANGED <<objectList, pixelColour>>

\* return resultColour: the caller multiplies it with the colour of its
\* material and returns in turn; main keeps it
Return ==
    /\ pc = "ret"
    /\ IF Len(stack) > 1
       THEN \E caller \in {stack[Len(stack) - 1]}, rayColour \in {Top.resultColour} :
                /\ stack' = [SubSeq(stack, 1, Len(stack) - 1) EXCEPT ![Len(stack) - 1] =
                               [caller EXCEPT !.rayColour = rayColour,
                                              !.resultColour =
                                                  hadamard(Mat(caller).colour, rayColour)]]
                /\ pc' = "ret"
                /\ UNCHANGED pixelColour
       ELSE /\ pixelColour' = Top.resultColour
            /\ stack' = <<>>
            /\ pc' = "done"
    /\ UNCHANGED <<objectList, numCalls>>

Next ==
    \/ AddObject
    \/ SceneReady
    \/ PrimaryRay
    \/ Entry
    \/ ScanStep
    \/ MissBackground
    \/ EnterRejectionLoop
    \/ RejectionIter
    \/ DiffuseScatter
    \/ MetalScatter
    \/ DialectricScatter
    \/ Return

Spec == Init /\ [][Next]_vars

\* The draws of the rejection loop are fair: an iteration whose point lies in
\* the unit sphere is not postponed forever.  Everything else is sequential
\* code that keeps running.
AcceptingIter ==
    \E r1, r2, r3 \in Rand01 :
        /\ RejectionIterWith(r1, r2, r3)
        /\ Top.found' 

FairSpec == Spec /\ WF_vars(Next) /\ WF_vars(AcceptingIter)

\* ------------------------------------------------------------------------
\* Properties
\* ------------------------------------------------------------------------
Frames == { stack[k] : k \in 1..Len(stack) }
InCastRay == pc \in {"entry", "scan", "loop", "ret"}
Returning == pc = "ret"

\* what intersection_test returns for the ray of f and object k
T(f, k) == intersection_test(f.ray, objectList[k].geometry)
\* the objects among the first n with a parameter above MIN_T
Valid(f, n) == { k \in 1..n : T(f, k) > MIN_T }

\* a direction of length 1, up to the rounding of the fixed-point arithmetic:
\* the squared length lies within a half of 1
IsUnit(v) == ~HasNaN(v) /\ 2 * Abs(dot(v, v) - SCALE * SCALE) <= SCALE * SCALE

\* C1: an invocation of cast_ray with maxDepth == 0 returns black at once:
\* it has made no intersection test, no random draw and no recursive call,
\* whatever the ray and the scene, and black is what it hands back.
C1_DepthZeroBlack ==
    \A f \in Frames :
        f.maxDepth = 0 =>
            /\ f.tests = 0 /\ f.i = 0 /\ ~f.drew /\ f.calls = 0
            /\ f.material = 0
            /\ (Returning /\ f = Top => f.resultColour = <<0, 0, 0>>)

C1_Witness ==
    /\ Returning
    /\ Top.maxDepth = 0
    /\ numObjects >= 1
    /\ Top.resultColour = <<0, 0, 0>>
    /\ Len(stack) > 1
    /\ stack[Len(stack) - 1].tests >= 1

\* C2, safety part: every invocation makes at most one recursive call, the
\* callee has the depth of its caller minus one, and an evaluation started
\* with depth d performs at most d + 1 invocations.
C2_Bounded ==
    /\ \A f \in Frames : f.calls <= 1 /\ f.maxDepth >= 0
    /\ \A k \in 2..Len(stack) :
          /\ stack[k].maxDepth = stack[k - 1].maxDepth - 1
          /\ stack[k - 1].calls = 1
    /\ stack # <<>> => /\ stack[1].maxDepth = MAX_RAY_DEPTH
                       /\ Len(stack) <= numCalls
                       /\ numCalls <= stack[1].maxDepth + 1
    /\ numCalls <= MAX_RAY_DEPTH + 1

\* C2: the call of cast_ray made by main eventually returns, and with it
\* every recursive call it made, given that the rejection loop eventually
\* draws a point of the unit sphere; the number of invocations is bounded as
\* above.
C2_Terminates ==
    /\ []C2_Bounded
    /\ <>(pc = "done")

C2_Witness ==
    /\ pc = "done"
    /\ numCalls = MAX_RAY_DEPTH + 1

\* C3: every ray whose direction intersection_test reads has a direction of
\* length 1.
C3_UnitDirections ==
    \A f \in Frames : f.tests > 0 => IsUnit(f.ray.dir)

\* C4: in the diffuse branch, a near-zero sum intersectNormal +
\* random_unit_vector() is replaced by the normal, so the ray handed to the
\* recursive call never has a zero direction.
C4_DiffuseGuard ==
    \A f \in Frames :
        f.branch = "diffuse" =>
            /\ near_zero(VAdd(normalize(f.randomPoint), f.intersectNormal))
                  => f.newDir = f.intersectNormal
            /\ f.newDir # V3Zero

\* the direction the metal branch reflects into: dir - 2*dot(dir, n)*n, moved
\* by roughness*randomPoint when the material is rough
MetalExpected(f) ==
    LET d == dot(f.ray.dir, f.intersectNormal)
        rough == Mat(f).roughness
    IN  [k \in 1..3 |->
            IF d = NaN \/ f.intersectNormal[k] = NaN \/ f.ray.dir[k] = NaN THEN NaN
            ELSE f.ray.dir[k] - RDiv(2 * d * f.intersectNormal[k], SCALE * SCALE)
                 + (IF rough > 0 THEN RDiv(f.randomPoint[k] * rough, SCALE) ELSE 0)]

MetalDone(f) == f.material # 0 /\ Mat(f).type = "METAL" /\ f.branch # "none"

\* C5: in the metal branch a reflected direction with dot product <= 0 with
\* the normal gives black and no recursive call, at any remaining depth; with
\* a dot product > 0 there is exactly one recursive call, of depth
\* maxDepth - 1, and the result is the material colour times its result.
C5_MetalBranch ==
    \A k \in 1..Len(stack) :
        LET f == stack[k]
            d == dot(MetalExpected(f), f.intersectNormal)
        IN  MetalDone(f) =>
              /\ FLe(d, 0) =>
                    /\ f.calls = 0
                    /\ k = Len(stack) /\ Returning
                    /\ f.resultColour = <<0, 0, 0>>
              /\ FGt(d, 0) =>
                    /\ f.calls = 1
                    /\ k < Len(stack) => stack[k + 1].maxDepth = f.maxDepth - 1
                    /\ k = Len(stack) =>
                          /\ Returning
                          /\ \A c \in 1..3 :
                               f.resultColour[c] =
                                 FMul(Mat(f).colour[c], f.rayColour[c], C_SCALE)

C5_Witness ==
    /\ Returning
    /\ MetalDone(Top)
    /\ Mat(Top).roughness > 0
    /\ Top.maxDepth = MAX_RAY_DEPTH
    /\ FLt(dot(MetalExpected(Top), Top.intersectNormal), 0)
    /\ Top.calls = 0
    /\ Top.resultColour = <<0, 0, 0>>

\* C6: after the scan (and after each of its iterations) the selected object
\* is the one with the smallest parameter t among the scanned objects with
\* t > MIN_T, the first of them in scene order when several have that t; no
\* object is selected when there is none, so neither the no-hit value nor a
\* t <= MIN_T is ever selected; point, normal and material are the selected
\* object's.
C6_NearestHit ==
    \A f \in Frames :
        LET valid == Valid(f, f.i)
        IN  IF valid = {}
            THEN f.material = 0 /\ f.tClosest = F32_MAX
            ELSE LET best == CHOOSE k \in valid :
                                \A j \in valid :
                                    \/ T(f, k) < T(f, j)
                                    \/ T(f, k) = T(f, j) /\ k <= j
                     point == at(f.ray, T(f, best))
                 IN  /\ f.material = best
                     /\ f.tClosest = T(f, best)
                     /\ f.tClosest # F32_MIN /\ f.tClosest > MIN_T
                     /\ f.intersectPoint = point
                     /\ f.intersectNormal =
                          normalize(VSub(point, objectList[best].geometry.pos))

C6_Witness ==
    /\ pc = "scan"
    /\ numObjects = 2
    /\ Top.i = 2
    /\ T(Top, 1) = T(Top, 2)
    /\ T(Top, 1) > MIN_T
    /\ objectList[1].material # objectList[2].material
    /\ Top.material = 1

\* C7: an invocation with maxDepth > 0 for which no object has t > MIN_T
\* returns the gradient (1 - ratio)*white + ratio*(0.5, 0.8, 0.9) with
\* ratio = 0.5*(dir.y + 1), having made no recursive call and no random draw.
SkyBlue == <<100, 160, 180>>

C7_Background ==
    \A f \in Frames :
        (f.maxDepth > 0 /\ f.i = numObjects /\ Valid(f, numObjects) = {}) =>
            /\ f = Top
            /\ f.calls = 0 /\ ~f.drew
            /\ pc \in {"entry", "scan", "ret"}
            /\ Returning =>
                 LET y == f.ray.dir[2]
                 IN  \A c \in 1..3 :
                       IF y = NaN THEN f.resultColour[c] = NaN
                       ELSE 2 * SCALE * f.resultColour[c] =
                              (SCALE - y) * C_SCALE + (y + SCALE) * SkyBlue[c]

C7_Witness ==
    /\ Returning
    /\ Top.maxDepth > 0
    /\ numObjects >= 1
    /\ Valid(Top, numObjects) = {}
    /\ Top.ray.dir[2] # NaN /\ Top.ray.dir[2] # 0
    /\ Top.resultColour # <<0, 0, 0>>

\* C8: with non-negative material colours no channel of a colour returned by
\* cast_ray is negative, and so none of the pixel colour is.
C8_NonNegative ==
    /\ \A f \in Frames : \A c \in 1..3 : ~FLt(f.resultColour[c], 0)
    /\ \A c \in 1..3 : ~FLt(pixelColour[c], 0)

\* C9: for b = 2*dot(D, O-C) and c = dot(O-C, O-C) - r^2 the test returns the
\* no-hit value when b^2 - 4c < 0 and otherwise the root t with
\* -b - 2t = sqrt(b^2 - 4c) >= 0, the smaller one; the unit sphere at
\* (0,0,-5) seen from the origin along (0,0,-1) gives t = 4.
C9_SmallerRoot ==
    \A f \in Frames :
        (f.tests > 0 /\ ~HasNaN(f.ray.dir) /\ ~HasNaN(f.ray.origin)) =>
            LET sphere == objectList[f.i].geometry
                oc == [k \in 1..3 |-> f.ray.origin[k] - sphere.pos[k]]
                b == 2 * (f.ray.dir[1] * oc[1] + f.ray.dir[2] * oc[2]
                          + f.ray.dir[3] * oc[3])
                c == oc[1] * oc[1] + oc[2] * oc[2] + oc[3] * oc[3]
                     - sphere.radius * sphere.radius
                disc == b * b - 4 * c * SCALE * SCALE
                root == -b - (f.t * 2 * SCALE * SCALE) \div T_SCALE
            IN  /\ disc < 0 => f.t = F32_MIN
                /\ disc >= 0 =>
                      /\ f.t # F32_MIN
                      /\ (f.t * 2 * SCALE * SCALE) % T_SCALE = 0
                      /\ root >= 0
                      /\ root * root <= disc
                      /\ disc < (root + 1) * (root + 1)
                /\ (f.ray.origin = <<0, 0, 0>> /\ f.ray.dir = <<0, 0, -SCALE>>
                      /\ sphere = Sphere(<<0, 0, -5 * SCALE>>, SCALE))
                     => f.t = 4 * T_SCALE

C9_Witness ==
    /\ pc = "scan"
    /\ Top.tests > 0
    /\ Top.ray.origin = <<0, 0, 0>>
    /\ Top.ray.dir = <<0, 0, -SCALE>>
    /\ objectList[Top.i].geometry = Sphere(<<0, 0, -5 * SCALE>>, SCALE)
    /\ Top.t = 4 * T_SCALE

\* C10: a sphere of radius <= 0 is rejected when the scene is built, so
\* cast_ray never runs against one.
C10_RadiusChecked ==
    InCastRay => \A k \in 1..numObjects : objectList[k].geometry.radius > 0

====
